---- MODULE Spec2Model ----
(***************************************************************************)
(* A model of sappy.py: the text normaliser `clean`, the template loader,  *)
(* the TF-IDF / cosine classifier `detect_license`, the command line       *)
(* parser `parse_args` and the retrieval loop of `main`.                   *)
(*                                                                         *)
(* Text is a sequence of one-character strings.  Three specifications      *)
(* share the variables: SpecClean (clean over all short strings),          *)
(* SpecDetect (one call of detect_license, stepped through its loop) and   *)
(* SpecMain (one run of the program).                                      *)
(***************************************************************************)
EXTENDS Integers, Sequences, FiniteSets, TLC

\* ------------------------------------------------------------------------
\* Bounds
\* ------------------------------------------------------------------------
\* longest input string enumerated for clean
MaxLen == 5
\* largest number of entries in the template directory
MaxFiles == 3

\* ------------------------------------------------------------------------
\* Characters
\* ------------------------------------------------------------------------
LowerLetters == {"a", "b", "s"}
UpperLetters == {"A", "B", "S"}
Digits == {"1"}
\* punctuation characters; the underscore is matched by \w in a Python regex
Punctuation == {".", "_"}
\* whitespace characters
Whitespace == {" ", "\t"}

\* the characters from which the inputs of clean are enumerated
Alphabet == {"a", "s", "A", "1", ".", "_", " ", "\t"}

\* \w of Python's re on str: letters, digits and the underscore
IsWord(c) == c \in LowerLetters \cup UpperLetters \cup Digits \cup {"_"}

\* str.lower() on one character
LowerChar(c) ==
    CASE c = "A" -> "a"
      [] c = "B" -> "b"
      [] c = "S" -> "s"
      [] OTHER -> c

\* ------------------------------------------------------------------------
\* String helpers (Python str methods used by clean)
\* ------------------------------------------------------------------------
\* re.sub('[^\w\d ]', ' ', document)
SubPunct(s) == [k \in 1..Len(s) |-> IF IsWord(s[k]) \/ s[k] = " " THEN s[k] ELSE " "]

RECURSIVE ReplaceAllRuns(_)
\* a collapse to a fixed point: every run of spaces becomes one space
ReplaceAllRuns(s) ==
    IF Len(s) < 2 THEN s
    ELSE IF s[1] = " " /\ s[2] = " " THEN ReplaceAllRuns(Tail(s))
    ELSE <<s[1]>> \o ReplaceAllRuns(Tail(s))

RECURSIVE ReplaceDouble(_)
\* document.replace('  ', ' '): non-overlapping occurrences, left to right
ReplaceDouble(s) ==
    IF Len(s) < 2 THEN s
    ELSE IF s[1] = " " /\ s[2] = " " THEN <<" ">> \o ReplaceDouble(SubSeq(s, 3, Len(s)))
    ELSE <<s[1]>> \o ReplaceDouble(Tail(s))

\* str.lower()
Lower(s) == [k \in 1..Len(s) |-> LowerChar(s[k])]

RECURSIVE SplitAcc(_, _)
\* the tokens of s cut at every single space, cur being the token being read
SplitAcc(s, cur) ==
    IF s = <<>> THEN <<cur>>
    ELSE IF s[1] = " " THEN <<cur>> \o SplitAcc(Tail(s), <<>>)
    ELSE SplitAcc(Tail(s), Append(cur, s[1]))

\* document.split(' '): '' gives [''], 'a  b' gives ['a', '', 'b']
Split(s) == SplitAcc(s, <<>>)

\* PorterStemmer().stem(token) on tokens over LowerLetters, Digits and "_":
\* words of at most two characters are returned as they are; of the rule
\* lists only step 1a can match (SSES -> SS, SS -> SS, S -> ), every other
\* suffix of the algorithm needs a letter outside LowerLetters
stem(w) ==
    LET n == Len(w) IN
    IF n <= 2 THEN w
    ELSE IF w[n] = "s" /\ w[n - 1] # "s" THEN SubSeq(w, 1, n - 1)
    ELSE w

RECURSIVE JoinStems(_, _)
\* reduce(lambda acc, token: acc + ' ' + stemmer.stem(token), tokens, acc)
JoinStems(tokens, acc) ==
    IF tokens = <<>> THEN acc
    ELSE JoinStems(Tail(tokens), acc \o <<" ">> \o stem(Head(tokens)))

IsSpaceChar(c) == c \in Whitespace

RECURSIVE LStrip(_)
LStrip(s) == IF s # <<>> /\ IsSpaceChar(s[1]) THEN LStrip(Tail(s)) ELSE s

RECURSIVE RStrip(_)
RStrip(s) ==
    IF s # <<>> /\ IsSpaceChar(s[Len(s)]) THEN RStrip(SubSeq(s, 1, Len(s) - 1)) ELSE s

\* str.strip()
Strip(s) == RStrip(LStrip(s))

RECURSIVE GapsAcc(_, _, _)
\* the separators between consecutive words (maximal runs of \w characters)
\* of s, in order; mode is "lead" before the first word, "word" inside a
\* word and "gap" inside the separator cur
GapsAcc(s, mode, cur) ==
    IF s = <<>> THEN <<>>
    ELSE IF IsWord(s[1])
         THEN (IF mode = "gap" THEN <<cur>> ELSE <<>>) \o GapsAcc(Tail(s), "word", <<>>)
    ELSE IF mode = "lead" THEN GapsAcc(Tail(s), "lead", <<>>)
    ELSE GapsAcc(Tail(s), "gap", Append(cur, s[1]))

Gaps(s) == GapsAcc(s, "lead", <<>>)

AllSpaces(s) == \A k \in 1..Len(s) : s[k] = " "

\* clean with the space collapse repeated to a fixed point
cleanFixedPoint(document) ==
    Strip(JoinStems(Split(Lower(ReplaceAllRuns(SubPunct(document)))), <<>>))

\* clean(document)
clean(document) ==
    Strip(JoinStems(Split(Lower(ReplaceDouble(SubPunct(document)))), <<>>))

\* ------------------------------------------------------------------------
\* Template loader
\* ------------------------------------------------------------------------
\* str.upper() on one character of a file name
UpperChar(c) ==
    CASE c = "a" -> "A"
      [] c = "b" -> "B"
      [] c = "s" -> "S"
      [] OTHER -> c

DotTxt == <<".", "t", "x", "t">>
DotMd == <<".", "m", "d">>

\* name.endswith('.txt')
EndsWithTxt(fn) == Len(fn) >= 4 /\ SubSeq(fn, Len(fn) - 3, Len(fn)) = DotTxt

\* sub('-', ' ', lic_fn[:-4].upper())
LicenseName(fn) ==
    [k \in 1..(Len(fn) - 4) |-> IF fn[k] = "-" THEN " " ELSE UpperChar(fn[k])]

\* The files a template directory may hold: file name and raw content.
TemplateFiles ==
    { [fname |-> <<"a", "b">> \o DotTxt,      text |-> <<"a", "a", " ", "b", "b">>],
      [fname |-> <<"a", "-", "b">> \o DotTxt, text |-> <<"a", "a", " ", "a", "b">>],
      [fname |-> <<"b", "s">> \o DotTxt,
       text |-> <<"A", "a", ".", " ", "b", "b", "s">>],
      [fname |-> <<"s", "a">> \o DotTxt,      text |-> <<"a", "s", " ", "a">>],
      [fname |-> <<"s">> \o DotTxt,           text |-> <<>>],
      [fname |-> <<"b">> \o DotTxt,           text |-> <<"s", "s", " ", "b", "a", "s">>],
      [fname |-> <<"a", "b">> \o DotMd,       text |-> <<"b", "b">>] }

\* the result of a call: a returned value or a raised exception
Returned(v) == [kind |-> "return", value |-> v]
Raised(e) == [kind |-> "raise", value |-> e]
Pending == [kind |-> "none", value |-> <<>>]

\* prepare_license_file(filename): reduce over the lines of an empty file
\* has no initial value and raises TypeError
prepare_license_file(file) ==
    IF file.text = <<>> THEN Raised("TypeError") ELSE Returned(clean(file.text))

\* the entries of the listing whose name ends in '.txt', in listing order
license_filenames(entries) == SelectSeq(entries, LAMBDA f : EndsWithTxt(f.fname))

\* load_license_templates(): listdir raises OSError on a directory that
\* cannot be read; otherwise parallel lists of names and cleaned texts
load_license_templates(dir) ==
    IF dir.readable = FALSE THEN Raised("OSError")
    ELSE LET fs == license_filenames(dir.entries)
             bad == {k \in 1..Len(fs) : prepare_license_file(fs[k]).kind = "raise"}
         IN IF bad # {} THEN Raised("TypeError")
            ELSE Returned([names |-> [k \in 1..Len(fs) |-> LicenseName(fs[k].fname)],
                           licenses |-> [k \in 1..Len(fs) |->
                                            prepare_license_file(fs[k]).value]])

\* ------------------------------------------------------------------------
\* TfidfVectorizer(stop_words='english', use_idf, smooth_idf, norm='l2')
\* ------------------------------------------------------------------------
\* the words of sklearn's English stop list that can be spelt with
\* LowerLetters, Digits and "_" and have two or more characters
StopWords == { <<"a", "s">> }

RECURSIVE WordRuns(_, _)
\* the maximal runs of \w characters of s (token_pattern \b\w\w+\b before the
\* length test), cur being the run being read
WordRuns(s, cur) ==
    IF s = <<>> THEN (IF cur = <<>> THEN <<>> ELSE <<cur>>)
    ELSE IF IsWord(s[1]) THEN WordRuns(Tail(s), Append(cur, s[1]))
    ELSE (IF cur = <<>> THEN <<>> ELSE <<cur>>) \o WordRuns(Tail(s), <<>>)

\* build_analyzer(): lowercase, tokens of two or more word characters,
\* stop words removed
Analyze(doc) ==
    SelectSeq(WordRuns(Lower(doc), <<>>), LAMBDA w : Len(w) >= 2 /\ w \notin StopWords)

Range(f) == {f[k] : k \in DOMAIN f}

Vocabulary(docs) == UNION {Range(Analyze(docs[k])) : k \in 1..Len(docs)}

\* term frequency: occurrences of term t among the tokens of doc
Tf(doc, t) == Cardinality({k \in DOMAIN Analyze(doc) : Analyze(doc)[k] = t})

\* document frequency of t
Df(docs, t) == Cardinality({k \in 1..Len(docs) : Tf(docs[k], t) > 0})

\* smooth idf, ln((1 + n) / (1 + df)) + 1, times ten and rounded to the
\* nearest integer
IdfTimes10(n, df) ==
    LET table == << <<10>>,
                    <<14, 10>>,
                    <<17, 13, 10>>,
                    <<19, 15, 12, 10>>,
                    <<21, 17, 14, 12, 10>>,
                    <<23, 18, 16, 13, 12, 10>>,
                    <<24, 20, 17, 15, 13, 11, 10>> >>
    IN table[n][df]

\* fit_transform(docs): raises ValueError on an empty vocabulary; otherwise
\* one row per document, a row being the tf * idf weight of every term.
\* norm='l2' divides a row by its length, which is left to cosine_similarity
\* (a positive factor of a row changes no cosine and a zero row stays zero).
fit_transform(docs) ==
    LET vocab == Vocabulary(docs) IN
    IF vocab = {} THEN Raised("ValueError")
    ELSE Returned([k \in 1..Len(docs) |->
                      [t \in vocab |-> Tf(docs[k], t) * IdfTimes10(Len(docs), Df(docs, t))]])

\* ------------------------------------------------------------------------
\* Similarity
\* ------------------------------------------------------------------------
RECURSIVE SumOver(_, _)
SumOver(f, S) ==
    IF S = {} THEN 0
    ELSE LET t == CHOOSE x \in S : TRUE IN f[t] + SumOver(f, S \ {t})

\* dot(v, w)
dot(v, w) == SumOver([t \in DOMAIN v |-> v[t] * w[t]], DOMAIN v)

RECURSIVE RatGt(_, _, _, _)
\* a / b > c / d for a, c >= 0 and b, d > 0, by continued fractions
RatGt(a, b, c, d) ==
    IF a \div b # c \div d THEN a \div b > c \div d
    ELSE IF a % b = 0 THEN FALSE
    ELSE IF c % d = 0 THEN TRUE
    ELSE RatGt(d, c % d, b, a % b)

\* A similarity value: nan, or the number whose sign is that of num and
\* whose square is |num| / den.
NaN == [nan |-> TRUE, num |-> 0, den |-> 1]
MinusOne == [nan |-> FALSE, num |-> -1, den |-> 1]

\* x >= y on similarity values, false whenever one of them is nan
Ge(x, y) ==
    /\ ~x.nan /\ ~y.nan
    /\ IF y.num < 0 THEN TRUE
       ELSE IF x.num < 0 THEN FALSE
       ELSE ~RatGt(y.num, y.den, x.num, x.den)

\* x > y with a nan on the left comparing greater than anything
GtNanWins(x, y) ==
    \/ x.nan
    \/ /\ ~y.nan
       /\ IF y.num < 0 THEN x.num >= 0
          ELSE IF x.num < 0 THEN FALSE
          ELSE RatGt(x.num, x.den, y.num, y.den)

\* x > y on similarity values (cos > max_similarity), false whenever one of
\* them is nan
Gt(x, y) ==
    /\ ~x.nan /\ ~y.nan
    /\ IF y.num < 0 THEN x.num >= 0
       ELSE IF x.num < 0 THEN FALSE
       ELSE RatGt(x.num, x.den, y.num, y.den)

\* cosine_similarity(v, w): dot(v, w) / (sqrt(dot(v, v)) * sqrt(dot(w, w)));
\* a numpy float divided by 0.0 is nan, not an exception
cosine_similarity(v, w) ==
    IF dot(v, v) * dot(w, w) = 0 THEN NaN
    ELSE [nan |-> FALSE, num |-> dot(v, w) * dot(v, w), den |-> dot(v, v) * dot(w, w)]

\* the loop body with cos >= max_similarity in place of cos > max_similarity
LoopBodyGe(tfidf, i, best) ==
    LET cos == cosine_similarity(tfidf[Len(tfidf)], tfidf[i + 1]) IN
    IF Ge(cos, best.max_similarity)
    THEN [max_similarity |-> cos, index_of_most_similar_license |-> i]
    ELSE best

\* the body of the search loop for index i (0-based), on the pair
\* (max_similarity, index_of_most_similar_license)
LoopBody(tfidf, i, best) ==
    LET cos == cosine_similarity(tfidf[Len(tfidf)], tfidf[i + 1]) IN
    IF Gt(cos, best.max_similarity)
    THEN [max_similarity |-> cos, index_of_most_similar_license |-> i]
    ELSE best

RECURSIVE LoopFrom(_, _, _, _)
\* for i in range(i, n): the loop run to its end
LoopFrom(tfidf, i, n, best) ==
    IF i >= n THEN best ELSE LoopFrom(tfidf, i + 1, n, LoopBody(tfidf, i, best))

\* an indexing that answers an empty label when the list is empty
IndexNamesDefault(names, idx) ==
    IF idx + 1 \in DOMAIN names THEN Returned(names[idx + 1]) ELSE Returned(<<>>)

\* names[index]: IndexError when the list is empty
IndexNames(names, idx) ==
    IF idx + 1 \in DOMAIN names THEN Returned(names[idx + 1]) ELSE Raised("IndexError")

\* detect_license(document, cleaned) over the template directory dir
detect_license(dir, document, cleaned) ==
    LET loaded == load_license_templates(dir) IN
    IF loaded.kind = "raise" THEN loaded
    ELSE LET names == loaded.value.names
             licenses == loaded.value.licenses
             cleaned_doc == IF cleaned THEN document ELSE clean(document)
             fitted == fit_transform(Append(licenses, cleaned_doc))
         IN IF fitted.kind = "raise" THEN fitted
            ELSE IndexNames(names,
                     LoopFrom(fitted.value, 0, Len(licenses),
                              [max_similarity |-> MinusOne,
                               index_of_most_similar_license |-> 0]
                             ).index_of_most_similar_license)

\* ------------------------------------------------------------------------
\* Command line
\* ------------------------------------------------------------------------
\* An optional argument is <<>> (None) or <<value>>.  A URL is a sequence of
\* pieces: the scheme "https://", a slash "/", or a run of non-slash text.
Url1 == <<"https://", "github.com", "/", "u2", "/", "r2">>
Url2 == <<"http:", "/", "/", "github.com", "/", "u2", "/", "r2">>
Url3 == <<"https://", "github.com", "/", "u2", "/", "r2", "/">>

Argvs ==
    [branch : {<<>>, <<"dev">>},
     username : {<<>>, <<"u1">>},
     repository_name : {<<>>, <<"r1">>},
     url : {<<>>, <<Url1>>, <<Url2>>, <<Url3>>}]

\* sub('https+:\/\/', '', url)
ChopUrl(url) == SelectSeq(url, LAMBDA piece : piece # "https://")

\* findall('\/{1}([^\/]+)', chopped_url): the text after every slash that is
\* followed by text
FindSegments(chopped) ==
    LET hits == {k \in 1..(Len(chopped) - 1) : chopped[k] = "/" /\ chopped[k + 1] # "/"}
        Nth[n \in 0..Cardinality(hits)] ==
            IF n = 0 THEN 0
            ELSE CHOOSE k \in hits : k > Nth[n - 1] /\ \A j \in hits : j > Nth[n - 1] => k <= j
    IN [n \in 1..Cardinality(hits) |-> chopped[Nth[n] + 1]]

\* the status the process ends with after exit(code)
ExitStatus(code) == code % 256

\* parse_args with the test on user and repo weakened to a conjunction
parse_argsBothMissing(argv) ==
    LET branch == IF argv.branch = <<>> THEN "master" ELSE argv.branch[1]
        user == argv.username
        repo == argv.repository_name
        url == argv.url
    IN IF user = <<>> /\ repo = <<>>
       THEN IF url = <<>>
            THEN [kind |-> "exit", value |-> ExitStatus(-1)]
            ELSE LET found == FindSegments(ChopUrl(url[1]))
                 IN IF Len(found) = 2
                    THEN Returned(<<found[1], found[2], branch>>)
                    ELSE Raised("ValueError")
       ELSE Returned(<<IF user = <<>> THEN "None" ELSE user[1],
                       IF repo = <<>> THEN "None" ELSE repo[1], branch>>)

\* parse_args(): the tuple (user, repo, branch), exit(-1) after the usage
\* text, or ValueError when the URL does not unpack into two names
parse_args(argv) ==
    LET branch == IF argv.branch = <<>> THEN "master" ELSE argv.branch[1]
        user == argv.username
        repo == argv.repository_name
        url == argv.url
    IN IF user = <<>> \/ repo = <<>>
       THEN IF url = <<>>
            THEN [kind |-> "exit", value |-> ExitStatus(-1)]
            ELSE LET found == FindSegments(ChopUrl(url[1]))
                 IN IF Len(found) = 2
                    THEN Returned(<<found[1], found[2], branch>>)
                    ELSE Raised("ValueError")
       ELSE Returned(<<user[1], repo[1], branch>>)

\* ------------------------------------------------------------------------
\* main: the probed file names
\* ------------------------------------------------------------------------
ProbeNames == <<"LICENSE", "LEGAL", "COPYRIGHT", "COPYING">>
ProbeFormats == <<"", ".md", ".txt">>

\* license_files = [name + format for name in names for format in formats]
license_files ==
    [k \in 1..(Len(ProbeNames) * Len(ProbeFormats)) |->
        <<ProbeNames[((k - 1) \div Len(ProbeFormats)) + 1],
          ProbeFormats[((k - 1) % Len(ProbeFormats)) + 1]>>]

\* request = r1 if r1.ok else r2_blob, with the preference reversed
ChooseBlobFirst(r1, r2_blob) == IF r2_blob.kind = "ok" THEN r2_blob ELSE r1

\* request = r1 if r1.ok else r2_blob
ChooseRequest(r1, r2_blob) == IF r1.kind = "ok" THEN r1 ELSE r2_blob

\* the test after the loop: if not license_detected, with the flag ignored
NotFoundAlways(detected) == TRUE

\* if not license_detected: print('License file not found ...')
PrintsNotFound(detected) == ~detected

\* an except clause that goes on with the next file name
AfterFailureContinue(k) ==
    IF k < Len(license_files) THEN [pc |-> "r1", fidx |-> k + 1]
    ELSE [pc |-> "returned", fidx |-> k]

\* except: print('Unable connect to the Internet.'); return
AfterFailure(k) == [pc |-> "returned", fidx |-> k]

\* ------------------------------------------------------------------------
\* State
\* ------------------------------------------------------------------------
VARIABLES
    c_pc, c_document, c_result,
    d_pc, dir, document, cleaned, names, licenses, tfidf, i,
    max_similarity, index_of_most_similar_license, d_result,
    m_pc, argv, ident, fidx, r1, requests, responses, printed,
    license_detected, classified, license, m_result

cleanVars == <<c_pc, c_document, c_result>>
detectVars == <<d_pc, document, cleaned, names, licenses, tfidf, i,
                max_similarity, index_of_most_similar_license, d_result>>
mainVars == <<m_pc, argv, ident, fidx, r1, requests, responses, printed,
              license_detected, classified, license, m_result>>
vars == <<cleanVars, detectVars, mainVars, dir>>

\* all strings over Alphabet of at most MaxLen characters
Strings == UNION {[1..n -> Alphabet] : n \in 0..MaxLen}

\* the states of the template directory: unreadable, or a listing of up to
\* MaxFiles distinct files in any order (listdir does not sort)
Listings ==
    UNION {{e \in [1..n -> TemplateFiles] : \A j, k \in 1..n : j # k => e[j] # e[k]}
              : n \in 0..MaxFiles}
Dirs == {[readable |-> FALSE, entries |-> <<>>]}
            \cup {[readable |-> TRUE, entries |-> e] : e \in Listings}

\* candidate documents: the raw text of every template file and a few others
Candidates ==
    {f.text : f \in TemplateFiles}
        \cup { <<".">>, <<"a", "a">>, <<"b", "a", " ", "a">>, <<"a", "a", ".", "b", "b">> }

NoResponse == [kind |-> "none", text |-> <<>>]
ResponseTexts == { <<"a", "a", " ", "b", "b">>, <<"s", "s", " ", "b", "a", "s">>, <<".">> }
\* what one requests.get can do: a response that is ok, one that is not, or
\* an exception
Responses ==
    [kind : {"ok"}, text : ResponseTexts]
        \cup {[kind |-> "notok", text |-> <<".">>], [kind |-> "exception", text |-> <<>>]}
IsOk(r) == r.kind = "ok"

cleanIdle == c_pc = "idle" /\ c_document = <<>> /\ c_result = <<>>
detectIdle ==
    /\ d_pc = "idle" /\ document = <<>> /\ cleaned = FALSE
    /\ names = <<>> /\ licenses = <<>> /\ tfidf = <<>> /\ i = 0
    /\ max_similarity = MinusOne /\ index_of_most_similar_license = 0
    /\ d_result = Pending
mainIdle ==
    /\ m_pc = "idle" /\ argv = [branch |-> <<>>, username |-> <<>>,
                                repository_name |-> <<>>, url |-> <<>>]
    /\ ident = <<>> /\ fidx = 0 /\ r1 = NoResponse
    /\ requests = <<>> /\ responses = <<>> /\ printed = <<>>
    /\ license_detected = FALSE /\ classified = <<>> /\ license = <<>>
    /\ m_result = Pending

\* ------------------------------------------------------------------------
\* SpecClean: clean applied to every short string
\* ------------------------------------------------------------------------
InitClean ==
    /\ c_pc = "start" /\ c_document \in Strings /\ c_result = <<>>
    /\ detectIdle /\ mainIdle /\ dir = [readable |-> FALSE, entries |-> <<>>]

Clean ==
    /\ c_pc = "start"
    /\ c_result' = clean(c_document)
    /\ c_pc' = "done"
    /\ UNCHANGED <<c_document, detectVars, mainVars, dir>>

NextClean == Clean
SpecClean == InitClean /\ [][NextClean]_vars

\* ------------------------------------------------------------------------
\* SpecDetect: one call of detect_license
\* ------------------------------------------------------------------------
InitDetect ==
    /\ d_pc = "load" /\ dir \in Dirs /\ document \in Candidates /\ cleaned \in BOOLEAN
    /\ names = <<>> /\ licenses = <<>> /\ tfidf = <<>> /\ i = 0
    /\ max_similarity = MinusOne /\ index_of_most_similar_license = 0
    /\ d_result = Pending
    /\ cleanIdle /\ mainIdle

\* names, licenses = load_license_templates()
Load ==
    /\ d_pc = "load"
    /\ LET loaded == load_license_templates(dir) IN
       IF loaded.kind = "raise"
       THEN /\ d_result' = loaded /\ d_pc' = "done"
            /\ UNCHANGED <<names, licenses>>
       ELSE /\ names' = loaded.value.names
            /\ licenses' = loaded.value.licenses
            /\ d_pc' = "fit"
            /\ UNCHANGED d_result
    /\ UNCHANGED <<document, cleaned, tfidf, i, max_similarity,
                   index_of_most_similar_license, cleanVars, mainVars, dir>>

\* cleaned_doc, tfidf, and the initial values of the search
Fit ==
    /\ d_pc = "fit"
    /\ LET cleaned_doc == IF cleaned THEN document ELSE clean(document)
           fitted == fit_transform(Append(licenses, cleaned_doc))
       IN IF fitted.kind = "raise"
          THEN /\ d_result' = fitted /\ d_pc' = "done"
               /\ UNCHANGED <<tfidf, i, max_similarity, index_of_most_similar_license>>
          ELSE /\ tfidf' = fitted.value
               /\ i' = 0
               /\ max_similarity' = MinusOne
               /\ index_of_most_similar_license' = 0
               /\ d_pc' = "loop"
               /\ UNCHANGED d_result
    /\ UNCHANGED <<document, cleaned, names, licenses, cleanVars, mainVars, dir>>

\* one iteration of for i in range(0, len(licenses))
Iterate ==
    /\ d_pc = "loop" /\ i < Len(licenses)
    /\ LET best == LoopBody(tfidf, i, [max_similarity |-> max_similarity,
                       index_of_most_similar_license |-> index_of_most_similar_license])
       IN /\ max_similarity' = best.max_similarity
          /\ index_of_most_similar_license' = best.index_of_most_similar_license
    /\ i' = i + 1
    /\ UNCHANGED <<d_pc, document, cleaned, names, licenses, tfidf, d_result,
                   cleanVars, mainVars, dir>>

\* return names[index_of_most_similar_license]
Return ==
    /\ d_pc = "loop" /\ i >= Len(licenses)
    /\ d_result' = IndexNames(names, index_of_most_similar_license)
    /\ d_pc' = "done"
    /\ UNCHANGED <<document, cleaned, names, licenses, tfidf, i, max_similarity,
                   index_of_most_similar_license, cleanVars, mainVars, dir>>

NextDetect == Load \/ Fit \/ Iterate \/ Return
SpecDetect == InitDetect /\ [][NextDetect]_vars

\* ------------------------------------------------------------------------
\* SpecMain: one run of main
\* ------------------------------------------------------------------------
\* the template directories of a run: unreadable, empty or holding one file
MainDirs == {d \in Dirs : Len(d.entries) <= 1}

InitMain ==
    /\ m_pc = "parse" /\ argv \in Argvs /\ dir \in MainDirs
    /\ ident = <<>> /\ fidx = 0 /\ r1 = NoResponse
    /\ requests = <<>> /\ responses = <<>> /\ printed = <<>>
    /\ license_detected = FALSE /\ classified = <<>> /\ license = <<>>
    /\ m_result = Pending
    /\ cleanIdle /\ detectIdle

\* user, repo, branch = parse_args() and the lines up to the loop
Start ==
    /\ m_pc = "parse"
    /\ LET parsed == parse_args(argv) IN
       CASE parsed.kind = "exit" ->
                /\ printed' = <<"Usage", "--url">>
                /\ m_result' = parsed
                /\ m_pc' = "exited"
                /\ UNCHANGED <<ident, fidx>>
         [] parsed.kind = "raise" ->
                /\ m_result' = parsed
                /\ m_pc' = "raised"
                /\ UNCHANGED <<ident, fidx, printed>>
         [] OTHER ->
                /\ ident' = parsed.value
                /\ printed' = <<"Arguments parsed">>
                /\ fidx' = 1
                /\ m_pc' = "r1"
                /\ UNCHANGED m_result
    /\ UNCHANGED <<argv, r1, requests, responses, license_detected, classified,
                   license, cleanVars, detectVars, dir>>

\* the request for license_files[k] under url (blob = FALSE) or blob_url
Request(k, blob) == [ident |-> ident, blob |-> blob, fname |-> license_files[k]]

\* the except clause of the loop
Fail(req, resp) ==
    /\ requests' = Append(requests, req)
    /\ responses' = Append(responses, resp)
    /\ printed' = Append(printed, "Unable connect")
    /\ m_pc' = AfterFailure(fidx).pc
    /\ fidx' = AfterFailure(fidx).fidx
    /\ m_result' = IF AfterFailure(fidx).pc = "returned" THEN Returned(<<>>) ELSE m_result
    /\ UNCHANGED <<argv, ident, r1, license_detected, classified, license,
                   cleanVars, detectVars, dir>>

\* r1 = requests.get(url + fname)
GetR1 ==
    /\ m_pc = "r1"
    /\ \E resp \in Responses :
         IF resp.kind = "exception"
         THEN Fail(Request(fidx, FALSE), resp)
         ELSE /\ requests' = Append(requests, Request(fidx, FALSE))
              /\ responses' = Append(responses, resp)
              /\ r1' = resp
              /\ m_pc' = "r2"
              /\ UNCHANGED <<argv, ident, fidx, printed, license_detected, classified,
                             license, m_result, cleanVars, detectVars, dir>>

\* r2_blob = requests.get(blob_url + fname) and the rest of the iteration;
\* after the last file name, the lines that follow the loop
GetR2Blob ==
    /\ m_pc = "r2"
    /\ \E r2_blob \in Responses :
         IF r2_blob.kind = "exception"
         THEN Fail(Request(fidx, TRUE), r2_blob)
         ELSE LET request == ChooseRequest(r1, r2_blob)
                  outcome == detect_license(dir, request.text, FALSE)
              IN /\ requests' = Append(requests, Request(fidx, TRUE))
                 /\ responses' = Append(responses, r2_blob)
                 /\ IF IsOk(request)
                    THEN /\ classified' = <<request.text>>
                         /\ IF outcome.kind = "raise"
                            THEN /\ printed' = Append(printed, "License file found")
                                 /\ m_result' = outcome
                                 /\ m_pc' = "raised"
                                 /\ UNCHANGED <<license, license_detected>>
                            ELSE /\ license' = <<outcome.value>>
                                 /\ license_detected' = TRUE
                                 /\ printed' = printed \o <<"License file found", "probably licensed">>
                                        \o (IF PrintsNotFound(TRUE) THEN <<"License file not found">> ELSE <<>>)
                                 /\ m_result' = Returned(<<>>)
                                 /\ m_pc' = "returned"
                         /\ UNCHANGED fidx
                    ELSE /\ IF fidx < Len(license_files)
                            THEN /\ fidx' = fidx + 1
                                 /\ m_pc' = "r1"
                                 /\ UNCHANGED <<printed, m_result>>
                            ELSE /\ printed' = printed \o
                                        (IF PrintsNotFound(license_detected)
                                         THEN <<"License file not found">> ELSE <<>>)
                                 /\ m_result' = Returned(<<>>)
                                 /\ m_pc' = "returned"
                                 /\ UNCHANGED fidx
                         /\ UNCHANGED <<classified, license, license_detected>>
                 /\ UNCHANGED <<argv, ident, r1, cleanVars, detectVars, dir>>

NextMain == Start \/ GetR1 \/ GetR2Blob
SpecMain == InitMain /\ [][NextMain]_vars

\* ------------------------------------------------------------------------
\* Properties of clean (SpecClean)
\* ------------------------------------------------------------------------
\* the characters the normalised text is said to consist of
NormalChars == LowerLetters \cup Digits \cup {" "}

\* C7: for every input of letters, digits, punctuation and whitespace the
\* output of clean contains only lowercase letters, digits and spaces.
C7_StripsAllPunctuation ==
    c_pc = "done" => \A k \in 1..Len(c_result) : c_result[k] \in NormalChars

Score(k) == cosine_similarity(tfidf[Len(tfidf)], tfidf[k])

SameScore(x, y) == ~x.nan /\ ~y.nan /\ ~Gt(x, y) /\ ~Gt(y, x)

\* template k has a score and none of the first n templates has a higher one
IsMaxAmong(k, n) == ~Score(k).nan /\ \A j \in 1..n : ~Gt(Score(j), Score(k))

\* C1: among the templates examined so far the chosen index is the lowest
\* one that reaches the maximal score, a later template with an equal score
\* never replaces it, and the name returned is the name at that index.
C1_TieBreakLowestIndex ==
    /\ d_pc = "loop" \/ (d_pc = "done" /\ d_result.kind = "return") =>
         \A k \in 1..i :
            IsMaxAmong(k, i) =>
                /\ index_of_most_similar_license + 1 <= k
                /\ SameScore(Score(index_of_most_similar_license + 1), Score(k))
    /\ d_pc = "done" /\ d_result.kind = "return" =>
         d_result.value = names[index_of_most_similar_license + 1]

\* a call has returned with two templates sharing the maximal score
C1_Witness ==
    /\ d_pc = "done" /\ d_result.kind = "return"
    /\ \E j, k \in 1..Len(licenses) :
         /\ j < k /\ IsMaxAmong(j, Len(licenses)) /\ IsMaxAmong(k, Len(licenses))
         /\ names[j] # names[k]
         /\ d_result.value = names[j]

\* the templates of the directory, in corpus order
Corpus == license_filenames(dir.entries)

\* the term counts of a raw text after clean and analysis
Counts(text) == [t \in Vocabulary(<<clean(text)>>) |-> Tf(clean(text), t)]

\* two count vectors point the same way
Parallel(a, b) ==
    /\ DOMAIN a = DOMAIN b /\ DOMAIN a # {}
    /\ \A t, u \in DOMAIN a : a[t] * b[u] = a[u] * b[t]

EmptyCandidate == IF cleaned THEN document = <<>> ELSE clean(document) = <<>>

\* a template directory that can be read and holds at least one template
NonEmptyCorpus == dir.readable /\ Len(Corpus) >= 1

\* C8 as stated, for corpora without an empty file: clean('') is '' and a
\* candidate that is empty after normalisation is given a label of the
\* corpus and nothing is raised.
C8_EmptyCandidateNeverRaises ==
    /\ clean(<<>>) = <<>>
    /\ d_pc = "done" /\ EmptyCandidate /\ NonEmptyCorpus
          /\ (\A k \in 1..Len(Corpus) : Corpus[k].text # <<>>) =>
         /\ d_result.kind = "return"
         /\ \E k \in 1..Len(Corpus) : d_result.value = LicenseName(Corpus[k].fname)

\* C8 amended: clean('') is ''; with a candidate that is empty after
\* normalisation the call raises TypeError when a template file is empty,
\* ValueError when no template has a vocabulary term, and otherwise returns
\* the first name of the corpus, every similarity being nan.
C8_EmptyCandidateFirstName ==
    /\ clean(<<>>) = <<>>
    /\ d_pc = "done" /\ EmptyCandidate /\ NonEmptyCorpus =>
         IF \E k \in 1..Len(Corpus) : Corpus[k].text = <<>>
         THEN d_result = Raised("TypeError")
         ELSE IF \A k \in 1..Len(Corpus) : DOMAIN Counts(Corpus[k].text) = {}
         THEN d_result = Raised("ValueError")
         ELSE /\ d_result = Returned(LicenseName(Corpus[1].fname))
              /\ \A k \in 1..Len(Corpus) : Score(k).nan

\* an empty candidate was classified over two templates with different names
C8_Witness ==
    /\ d_pc = "done" /\ EmptyCandidate /\ NonEmptyCorpus
    /\ Len(Corpus) >= 2 /\ d_result.kind = "return"
    /\ LicenseName(Corpus[1].fname) # LicenseName(Corpus[Len(Corpus)].fname)
    /\ DOMAIN Counts(Corpus[Len(Corpus)].text) # {}

\* the template directory cannot be read or holds no '.txt' file
BadTemplateDir == ~dir.readable \/ Len(Corpus) = 0

\* C9 as stated: with such a directory the call fails with a configuration
\* error of its own kind.
C9_ConfigurationError ==
    d_pc = "done" /\ BadTemplateDir => d_result = Raised("ConfigurationError")

\* C9 amended: with such a directory the call never returns a label; it
\* raises OSError when the directory cannot be read and, when there is no
\* template, ValueError if the candidate has no vocabulary term and
\* IndexError otherwise.
C9_BadDirRaises ==
    d_pc = "done" /\ BadTemplateDir =>
        d_result = Raised(IF ~dir.readable THEN "OSError"
                          ELSE IF Vocabulary(<<IF cleaned THEN document
                                               ELSE clean(document)>>) = {}
                               THEN "ValueError"
                               ELSE "IndexError")

\* a call over a readable directory without templates has ended in IndexError
C9_Witness ==
    /\ d_pc = "done" /\ dir.readable /\ Len(Corpus) = 0 /\ Len(dir.entries) >= 1
    /\ d_result = Raised("IndexError")

\* ------------------------------------------------------------------------
\* Properties of parse_args and main (SpecMain)
\* ------------------------------------------------------------------------
\* the k-th request of a run that probes in the fixed order
ExpectedRequest(k) == Request((k + 1) \div 2, k % 2 = 0)

FixedOrder == \A k \in 1..Len(requests) : requests[k] = ExpectedRequest(k)

HasOk == \E k \in 1..Len(responses) : IsOk(responses[k])

FirstOk == CHOOSE k \in 1..Len(responses) :
              IsOk(responses[k]) /\ \A j \in 1..(k - 1) : ~IsOk(responses[j])

Count(seq, x) == Cardinality({k \in 1..Len(seq) : seq[k] = x})

AllProbed == Len(responses) = 2 * Len(license_files)
NoneOk == \A k \in 1..Len(responses) : responses[k].kind = "notok"

\* C4: when every probe of every file name was answered and none was ok,
\* detect_license is not called, the not-found message is printed exactly
\* once and main returns; the message is never printed in a run that
\* classified a license.
C4_NotFoundOutcome ==
    /\ AllProbed /\ NoneOk =>
         /\ classified = <<>> /\ ~license_detected
         /\ Count(printed, "License file not found") = 1
         /\ m_pc = "returned" /\ m_result = Returned(<<>>)
    /\ license_detected => Count(printed, "License file not found") = 0

C4_Witness == AllProbed /\ NoneOk /\ m_pc = "returned"

\* C5: a request that raises ends the run at once: the message is printed
\* last, main returns, nothing is requested, classified or printed after it,
\* and no request is made twice.
C5_NetworkFailureEndsRun ==
    /\ \A k \in 1..Len(responses) :
         responses[k].kind = "exception" =>
            /\ k = Len(responses) /\ Len(requests) = k
            /\ m_pc = "returned" /\ m_result = Returned(<<>>)
            /\ printed[Len(printed)] = "Unable connect"
            /\ Count(printed, "Unable connect") = 1
            /\ Count(printed, "License file not found") = 0
            /\ Count(printed, "probably licensed") = 0
            /\ classified = <<>> /\ ~license_detected
    /\ \A j, k \in 1..Len(requests) : j # k => requests[j] # requests[k]
    /\ Count(printed, "Unable connect") > 0 =>
         responses[Len(responses)].kind = "exception"

\* the blob request for the third file name raised after an ok response
C5_Witness ==
    /\ Len(responses) = 6 /\ responses[6].kind = "exception"
    /\ IsOk(responses[5]) /\ m_pc = "returned"

MissingIdentification ==
    (argv.username = <<>> \/ argv.repository_name = <<>>) /\ argv.url = <<>>

\* C6: without identification parse_args prints the usage text and exits
\* with a non-zero status, no tuple is returned and nothing is requested;
\* with username and repository both given they are returned as they are,
\* whatever the URL, with branch 'master' unless one was given.
C6_ParseArgs ==
    m_pc # "parse" =>
        /\ MissingIdentification =>
              /\ m_pc = "exited" /\ m_result.kind = "exit" /\ m_result.value # 0
              /\ printed = <<"Usage", "--url">>
              /\ ident = <<>> /\ requests = <<>>
        /\ argv.username # <<>> /\ argv.repository_name # <<>> =>
              /\ ident = <<argv.username[1], argv.repository_name[1],
                           IF argv.branch = <<>> THEN "master" ELSE argv.branch[1]>>
              /\ m_pc # "exited"
              /\ m_result.kind # "exit"

\* a run with only the repository name given has exited, and so it is a run
\* with the identification missing
C6_Witness ==
    /\ m_pc = "exited" /\ argv.username = <<>> /\ argv.repository_name # <<>>
    /\ argv.url = <<>>

====
